---- MODULE Spec2Model ----
(***************************************************************************)
(* Model of ec-memory-generator.py: a schema (record name -> ordered       *)
(* mapping of field name -> field spec) is loaded from a YAML file,        *)
(* checked for 32-bit alignment, rendered as Rust and as C, and the two    *)
(* texts are written to structure.rs and ecmemory.h.                       *)
(*                                                                         *)
(* Python dicts are insertion-ordered: a dict is a sequence of <<key,      *)
(* value>> pairs with distinct keys.  A text is a sequence of lines; a     *)
(* line is the tuple of the literal pieces and interpolated values of the  *)
(* f-string that produced it.                                              *)
(***************************************************************************)
EXTENDS Integers, Sequences, FiniteSets, TLC

VARIABLES argv, disk, pc, yaml_data, data, chk, rust_code, c_code,
          stdout, opened, outfiles, calls, exc

vars == <<argv, disk, pc, yaml_data, data, chk, rust_code, c_code,
          stdout, opened, outfiles, calls, exc>>

----------------------------------------------------------------------------
(* Bounds and input alphabets *)

MaxTotalFields == 3

RecordNames == {"A", "u8"}

TypeTokens == {"u8", "u32", "A"}

\* The j-th field of a record is named FieldNames[j] (not in sorted order).
FieldNames == <<"major", "minor", "spin", "res0", "pad">>

Paths == {"ec_memory.yaml", "other.yaml"}

\* A field spec: a bare type token (isDict = FALSE) or a mapping with a
\* `type` key (isDict = TRUE); tok is the token in both cases.
FieldSpecs == [isDict : BOOLEAN, tok : TypeTokens]

RecordOf(key, specs) ==
    <<key, [j \in 1..Len(specs) |-> <<FieldNames[j], specs[j]>>]>>

RECURSIVE SchemasWith(_, _)
SchemasWith(names, budget) ==
    {<<>>} \cup
    UNION { UNION { UNION { { <<RecordOf(k, fl)>> \o rest :
                                rest \in SchemasWith(names \ {k}, budget - n) } :
                            fl \in [1..n -> FieldSpecs] } :
                    n \in 0..budget } :
            k \in names }

Schemas == SchemasWith(RecordNames, MaxTotalFields)

\* What the path on the command line leads to.
Files ==
    {[kind |-> k, items |-> <<>>] : k \in {"missing", "unreadable", "malformed"}}
    \cup {[kind |-> "mapping", items |-> s] : s \in Schemas}

None == [isNone |-> TRUE, kind |-> "none", items |-> <<>>]

Loaded(items) == [isNone |-> FALSE, kind |-> "mapping", items |-> items]

----------------------------------------------------------------------------
(* Ordered dictionaries *)

Keys(d) == {d[n][1] : n \in 1..Len(d)}

DictGet(d, k) == d[CHOOSE n \in 1..Len(d) : d[n][1] = k][2]

DictSet(d, k, v) ==
    IF k \in Keys(d)
    THEN [n \in 1..Len(d) |-> IF d[n][1] = k THEN <<k, v>> ELSE d[n]]
    ELSE Append(d, <<k, v>>)

RECURSIVE Concat(_)
Concat(ss) == IF ss = <<>> THEN <<>> ELSE Head(ss) \o Concat(Tail(ss))

----------------------------------------------------------------------------
(* The emitters *)

\* isinstance(sub_value, dict) and 'type' in sub_value
HasType(sub_value) == sub_value.isDict

\* Line 15 interpolates sub_value['type'], line 17 the bare token itself.
RustField(sub_key, sub_value) ==
    IF HasType(sub_value)
    THEN <<"    pub ", sub_key, ": ", sub_value.tok, ",">>
    ELSE <<"    pub ", sub_key, ": ", sub_value.tok, ",">>

RustStruct(key, value) ==
    << <<"#[allow(missing_docs)]">>,
       <<"#[repr(C, packed)]">>,
       <<"#[derive(Clone, Copy, Debug, Default)]">>,
       <<"pub struct ", key, " {">> >>
    \o [j \in 1..Len(value) |-> RustField(value[j][1], value[j][2])]
    \o << <<"}">>, <<"">> >>

yaml_to_rust(d) ==
    << <<"//! EC Internal Data Structures">>,
       <<"">>,
       <<"#[allow(missing_docs)]">>,
       <<"pub const EC_MEMMAP_VERSION: Version = Version {major: 0, minor: 1, spin: 0, res0: 0};">>,
       <<"">> >>
    \o Concat([i \in 1..Len(d.items) |-> RustStruct(d.items[i][1], d.items[i][2])])

type_to_c_type(type_str) ==
    IF type_str = "u32" THEN "uint32_t"
    ELSE IF type_str = "u16" THEN "uint16_t"
    ELSE IF type_str = "u8" THEN "uint8_t"
    ELSE IF type_str = "i32" THEN "int32_t"
    ELSE IF type_str = "i16" THEN "int16_t"
    ELSE IF type_str = "i8" THEN "int8_t"
    ELSE type_str

CField(sub_key, sub_value) ==
    IF HasType(sub_value)
    THEN <<"    ", type_to_c_type(sub_value.tok), " ", sub_key, ";">>
    ELSE <<"    ", sub_value.tok, " ", sub_key, ";">>

\* CStruct with the fields walked in reverse.
CStruct_reversed(key, value) ==
    << <<"typedef struct {">> >>
    \o [j \in 1..Len(value) |->
            CField(value[Len(value) + 1 - j][1], value[Len(value) + 1 - j][2])]
    \o << <<"} ", key, ";">>, <<"">> >>

CStruct(key, value) ==
    << <<"typedef struct {">> >>
    \o [j \in 1..Len(value) |-> CField(value[j][1], value[j][2])]
    \o << <<"} ", key, ";">>, <<"">> >>

yaml_to_c(d) ==
    << <<"#pragma once">>, <<"">>,
       <<"#include <stdint.h>">>, <<"">>,
       <<"#pragma pack(push, 1)">>, <<"">> >>
    \o Concat([i \in 1..Len(d.items) |-> CStruct(d.items[i][1], d.items[i][2])])
    \o << <<"#pragma pack(pop)">>, <<"">>,
          <<"const Version EC_MEMMAP_VERSION = {0x00, 0x01, 0x00, 0x00};">> >>

\* A call of an emitter: the text it returns and the schema object it was
\* handed, as that object is when the call returns (the emitters only read it).
call_yaml_to_rust(d) == [ret |-> yaml_to_rust(d), data |-> d]

\* call_yaml_to_c storing each translated token back into the field's mapping.
call_yaml_to_c_inplace(d) ==
    [ret |-> yaml_to_c(d),
     data |-> [d EXCEPT !.items =
                 [i \in 1..Len(d.items) |->
                    <<d.items[i][1],
                      [j \in 1..Len(d.items[i][2]) |->
                         LET f == d.items[i][2][j]
                         IN  IF HasType(f[2])
                             THEN <<f[1], [f[2] EXCEPT !.tok = type_to_c_type(@)]>>
                             ELSE f]>>]]]

call_yaml_to_c(d) == [ret |-> yaml_to_c(d), data |-> d]

----------------------------------------------------------------------------
(* The loader *)

\* open_file: the file's content, or a printed message and None.
open_file(file_path, file) ==
    IF file.kind = "missing"
    THEN [ret |-> None, out |-> << <<"File not found: ", file_path>> >>]
    ELSE IF file.kind = "unreadable"
    THEN [ret |-> None, out |-> << <<"An error occurred: ", "PermissionError">> >>]
    ELSE [ret |-> [isNone |-> FALSE, kind |-> file.kind, items |-> file.items],
          out |-> <<>>]

\* safe_load yielding an empty mapping when there is nothing to read.
safe_load_lenient(y) ==
    IF y.isNone
    THEN {[raised |-> FALSE, exc |-> "", ret |-> Loaded(<<>>)]}
    ELSE IF y.kind = "malformed"
    THEN {[raised |-> TRUE, exc |-> "YAMLError", ret |-> None]}
    ELSE {[raised |-> FALSE, exc |-> "", ret |-> Loaded(y.items)]}

\* yaml.safe_load(yaml_data): the outcomes the library call can have.  A
\* mapping document loads as a dict; a malformed document raises; for None
\* (no stream to read) the call either raises or yields None.
safe_load(y) ==
    IF y.isNone
    THEN {[raised |-> TRUE, exc |-> "AttributeError", ret |-> None],
          [raised |-> FALSE, exc |-> "", ret |-> None]}
    ELSE IF y.kind = "malformed"
    THEN {[raised |-> TRUE, exc |-> "YAMLError", ret |-> None]}
    ELSE {[raised |-> FALSE, exc |-> "", ret |-> Loaded(y.items)]}

----------------------------------------------------------------------------
(* The alignment checker *)

PrimitiveSizes ==
    << <<"u32", 4>>, <<"u16", 2>>, <<"u8", 1>>,
       <<"i32", 4>>, <<"i16", 2>>, <<"i8", 1>> >>

is_primitive_type(type_str) ==
    type_str \in {"u32", "u16", "u8", "i32", "i16", "i8"}

\* Line 68 and the loop variables before the first iteration.
CheckEnter ==
    [sizes |-> PrimitiveSizes, size |-> 0, raised |-> FALSE, i |-> 0, j |-> 0]

\* Lines 72-74, one iteration of the inner loop for record `key`:
\* sizes[sub_value['type']] raises KeyError for a token that is not a key.
CheckField(st, key, sub_value) ==
    IF HasType(sub_value)
    THEN IF sub_value.tok \notin Keys(st.sizes)
         THEN [st EXCEPT !.raised = TRUE]
         ELSE LET s == st.size + DictGet(st.sizes, sub_value.tok)
              IN  [st EXCEPT !.size = s, !.sizes = DictSet(st.sizes, key, s)]
    ELSE [st EXCEPT !.sizes = DictSet(st.sizes, key, st.size)]

\* Lines 76-78: one warning per non-primitive key whose size is not a
\* multiple of 4, in the table's order.
WarningLine(key, size) ==
    <<"Warning: ", key, " is not 32-bit aligned. Size: ", ToString(size), " bytes">>

RECURSIVE Warnings(_)
Warnings(sizes) ==
    IF sizes = <<>> THEN <<>>
    ELSE (IF ~is_primitive_type(Head(sizes)[1]) /\ Head(sizes)[2] % 4 # 0
          THEN <<WarningLine(Head(sizes)[1], Head(sizes)[2])>>
          ELSE <<>>)
         \o Warnings(Tail(sizes))

\* The whole of check_for_32bit_alignment in one evaluation, by the same steps.
RECURSIVE CheckFields(_, _, _)
CheckFields(st, key, value) ==
    IF value = <<>> \/ st.raised THEN st
    ELSE CheckFields(CheckField(st, key, Head(value)[2]), key, Tail(value))

RECURSIVE CheckRecords(_, _)
CheckRecords(st, items) ==
    IF items = <<>> \/ st.raised THEN st
    ELSE CheckRecords(CheckFields([st EXCEPT !.size = 0], Head(items)[1], Head(items)[2]),
                      Tail(items))

call_check_for_32bit_alignment(d) ==
    LET st == CheckRecords(CheckEnter, d.items)
    IN  [raised |-> st.raised,
         sizes |-> st.sizes,
         out |-> IF st.raised THEN <<>> ELSE Warnings(st.sizes),
         data |-> d]

----------------------------------------------------------------------------
(* The writer *)

OutputNames == {"structure.rs", "ecmemory.h"}

WriteOutcomes == {"ok", "PermissionError"}

\* write_output without the except clause: a failure propagates.
write_output_unguarded(lang, filename, code, outcome) ==
    IF outcome = "ok"
    THEN [file |-> [state |-> "written", text |-> code],
          out |-> <<lang, " code has been written to ", filename>>,
          raised |-> FALSE]
    ELSE [file |-> [state |-> "failed", text |-> <<>>],
          out |-> <<"Traceback: ", filename, ": ", outcome>>,
          raised |-> TRUE]

\* Lines 104-109 and 111-116: open(filename, "w"), write, print; any
\* Exception is caught and printed.
write_output(lang, filename, code, outcome) ==
    IF outcome = "ok"
    THEN [file |-> [state |-> "written", text |-> code],
          out |-> <<lang, " code has been written to ", filename>>,
          raised |-> FALSE]
    ELSE [file |-> [state |-> "failed", text |-> <<>>],
          out |-> <<"An error occurred while writing to ", filename, ": ", outcome>>,
          raised |-> FALSE]

----------------------------------------------------------------------------
(* The run: __main__ *)

Init ==
    /\ \E f \in Files :
          \/ /\ argv \in {<<"ec-memory-generator.py", p>> : p \in Paths}
             /\ disk = f
          \/ /\ argv = <<"ec-memory-generator.py">>
             /\ f.kind = "missing"
             /\ disk = f
    /\ pc = "start"
    /\ yaml_data = None
    /\ data = None
    /\ chk = CheckEnter
    /\ rust_code = <<>>
    /\ c_code = <<>>
    /\ stdout = <<>>
    /\ opened = <<>>
    /\ outfiles = [n \in OutputNames |-> [state |-> "untouched", text |-> <<>>]]
    /\ calls = <<>>
    /\ exc = ""

\* Lines 84-86
Main_Usage ==
    /\ pc = "start"
    /\ Len(argv) # 2
    /\ stdout' = Append(stdout, <<"Usage: python yamltorust.py <file_path>">>)
    /\ pc' = "exited"
    /\ UNCHANGED <<argv, disk, yaml_data, data, chk, rust_code, c_code,
                   opened, outfiles, calls, exc>>

\* Lines 88-89
Main_OpenFile ==
    /\ pc = "start"
    /\ Len(argv) = 2
    /\ LET r == open_file(argv[2], disk)
       IN  /\ yaml_data' = r.ret
           /\ stdout' = stdout \o r.out
    /\ calls' = Append(calls, "open_file")
    /\ pc' = "load"
    /\ UNCHANGED <<argv, disk, data, chk, rust_code, c_code, opened, outfiles, exc>>

\* Line 92
Main_SafeLoad ==
    /\ pc = "load"
    /\ \E r \in safe_load(yaml_data) :
          /\ data' = r.ret
          /\ exc' = r.exc
          /\ pc' = IF r.raised THEN "crashed" ELSE "check"
    /\ calls' = Append(calls, "safe_load")
    /\ UNCHANGED <<argv, disk, yaml_data, chk, rust_code, c_code, stdout,
                   opened, outfiles>>

\* Lines 94, 68 and the evaluation of data.items() at line 69
Check_Enter ==
    /\ pc = "check"
    /\ chk' = CheckEnter
    /\ calls' = Append(calls, "check_for_32bit_alignment")
    /\ IF data.isNone
       THEN pc' = "crashed" /\ exc' = "AttributeError"
       ELSE pc' = "check_for" /\ exc' = exc
    /\ UNCHANGED <<argv, disk, yaml_data, data, rust_code, c_code, stdout,
                   opened, outfiles>>

\* Lines 69-70: the next record, or the end of the outer loop
Check_NextRecord ==
    /\ pc = "check_for"
    /\ IF chk.i < Len(data.items)
       THEN /\ chk' = [chk EXCEPT !.i = chk.i + 1, !.j = 0, !.size = 0]
            /\ pc' = "check_fields"
       ELSE /\ chk' = chk
            /\ pc' = "check_warn"
    /\ UNCHANGED <<argv, disk, yaml_data, data, rust_code, c_code, stdout,
                   opened, outfiles, calls, exc>>

\* Lines 71-74: the next field of the current record, or the end of the
\* inner loop
Check_Field ==
    /\ pc = "check_fields"
    /\ LET key == data.items[chk.i][1]
           value == data.items[chk.i][2]
       IN  IF chk.j < Len(value)
           THEN LET st == CheckField(chk, key, value[chk.j + 1][2])
                IN  /\ chk' = [st EXCEPT !.j = chk.j + 1]
                    /\ pc' = IF st.raised THEN "crashed" ELSE "check_fields"
                    /\ exc' = IF st.raised THEN "KeyError" ELSE exc
           ELSE /\ chk' = chk
                /\ pc' = "check_for"
                /\ exc' = exc
    /\ UNCHANGED <<argv, disk, yaml_data, data, rust_code, c_code, stdout,
                   opened, outfiles, calls>>

\* Lines 76-78
Check_Warn ==
    /\ pc = "check_warn"
    /\ stdout' = stdout \o Warnings(chk.sizes)
    /\ pc' = "rust"
    /\ UNCHANGED <<argv, disk, yaml_data, data, chk, rust_code, c_code,
                   opened, outfiles, calls, exc>>

\* Line 97
Main_Rust ==
    /\ pc = "rust"
    /\ LET r == call_yaml_to_rust(data)
       IN  rust_code' = r.ret /\ data' = r.data
    /\ calls' = Append(calls, "yaml_to_rust")
    /\ pc' = "c"
    /\ UNCHANGED <<argv, disk, yaml_data, chk, c_code, stdout, opened, outfiles, exc>>

\* Line 99
Main_C ==
    /\ pc = "c"
    /\ LET r == call_yaml_to_c(data)
       IN  c_code' = r.ret /\ data' = r.data
    /\ calls' = Append(calls, "yaml_to_c")
    /\ pc' = "write_rs"
    /\ UNCHANGED <<argv, disk, yaml_data, chk, rust_code, stdout, opened, outfiles, exc>>

\* Lines 101, 104-109
Main_WriteRust ==
    /\ pc = "write_rs"
    /\ \E outcome \in WriteOutcomes :
          LET r == write_output("Rust", "structure.rs", rust_code, outcome)
          IN  /\ outfiles' = [outfiles EXCEPT !["structure.rs"] = r.file]
              /\ stdout' = Append(stdout, r.out)
              /\ pc' = IF r.raised THEN "crashed" ELSE "write_c"
              /\ exc' = IF r.raised THEN outcome ELSE exc
    /\ opened' = Append(opened, "structure.rs")
    /\ UNCHANGED <<argv, disk, yaml_data, data, chk, rust_code, c_code, calls>>

\* Lines 102, 111-116
Main_WriteC ==
    /\ pc = "write_c"
    /\ \E outcome \in WriteOutcomes :
          LET r == write_output("C", "ecmemory.h", c_code, outcome)
          IN  /\ outfiles' = [outfiles EXCEPT !["ecmemory.h"] = r.file]
              /\ stdout' = Append(stdout, r.out)
              /\ pc' = IF r.raised THEN "crashed" ELSE "done"
              /\ exc' = IF r.raised THEN outcome ELSE exc
    /\ opened' = Append(opened, "ecmemory.h")
    /\ UNCHANGED <<argv, disk, yaml_data, data, chk, rust_code, c_code, calls>>

Next ==
    \/ Main_Usage
    \/ Main_OpenFile
    \/ Main_SafeLoad
    \/ Check_Enter
    \/ Check_NextRecord
    \/ Check_Field
    \/ Check_Warn
    \/ Main_Rust
    \/ Main_C
    \/ Main_WriteRust
    \/ Main_WriteC

Spec == Init /\ [][Next]_vars

----------------------------------------------------------------------------
(* The three functions called in any order on one loaded schema *)

HasRun(f) == \E n \in 1..Len(calls) : calls[n] = f

HarnessInit ==
    /\ argv \in {<<"ec-memory-generator.py", p>> : p \in Paths}
    /\ disk \in {f \in Files : f.kind = "mapping"}
    /\ pc = "harness"
    /\ yaml_data = [isNone |-> FALSE, kind |-> disk.kind, items |-> disk.items]
    /\ data = Loaded(disk.items)
    /\ chk = CheckEnter
    /\ rust_code = <<>>
    /\ c_code = <<>>
    /\ stdout = <<>>
    /\ opened = <<>>
    /\ outfiles = [n \in OutputNames |-> [state |-> "untouched", text |-> <<>>]]
    /\ calls = <<>>
    /\ exc = ""

Harness_Check ==
    /\ pc = "harness"
    /\ ~HasRun("check_for_32bit_alignment")
    /\ LET r == call_check_for_32bit_alignment(data)
       IN  /\ data' = r.data
           /\ stdout' = stdout \o r.out
           /\ chk' = [CheckEnter EXCEPT !.sizes = r.sizes, !.raised = r.raised]
           /\ exc' = IF r.raised THEN "KeyError" ELSE exc
    /\ calls' = Append(calls, "check_for_32bit_alignment")
    /\ UNCHANGED <<argv, disk, pc, yaml_data, rust_code, c_code, opened, outfiles>>

Harness_Rust ==
    /\ pc = "harness"
    /\ ~HasRun("yaml_to_rust")
    /\ LET r == call_yaml_to_rust(data)
       IN  rust_code' = r.ret /\ data' = r.data
    /\ calls' = Append(calls, "yaml_to_rust")
    /\ UNCHANGED <<argv, disk, pc, yaml_data, chk, c_code, stdout, opened, outfiles, exc>>

Harness_C ==
    /\ pc = "harness"
    /\ ~HasRun("yaml_to_c")
    /\ LET r == call_yaml_to_c(data)
       IN  c_code' = r.ret /\ data' = r.data
    /\ calls' = Append(calls, "yaml_to_c")
    /\ UNCHANGED <<argv, disk, pc, yaml_data, chk, rust_code, stdout, opened, outfiles, exc>>

HarnessNext ==
    \/ Harness_Check
    \/ Harness_Rust
    \/ Harness_C

HarnessSpec == HarnessInit /\ [][HarnessNext]_vars

----------------------------------------------------------------------------
(* Reading the outputs back *)

Range(s) == {s[n] : n \in 1..Len(s)}

\* The structs a Rust text declares: <<name, <<field name, type>>...>> in order.
RECURSIVE ParseRust(_, _)
ParseRust(lines, acc) ==
    IF lines = <<>> THEN acc
    ELSE LET l == Head(lines)
         IN  IF Len(l) = 3 /\ l[1] = "pub struct "
             THEN ParseRust(Tail(lines), Append(acc, <<l[2], <<>>>>))
             ELSE IF Len(l) = 5 /\ l[1] = "    pub " /\ acc # <<>>
             THEN ParseRust(Tail(lines),
                     [acc EXCEPT ![Len(acc)] = <<@[1], Append(@[2], <<l[2], l[4]>>)>>])
             ELSE ParseRust(Tail(lines), acc)

\* The structs a C text declares, likewise; the fields precede the name.
RECURSIVE ParseC(_, _, _)
ParseC(lines, pending, acc) ==
    IF lines = <<>> THEN acc
    ELSE LET l == Head(lines)
         IN  IF l = <<"typedef struct {">>
             THEN ParseC(Tail(lines), <<>>, acc)
             ELSE IF Len(l) = 5 /\ l[1] = "    "
             THEN ParseC(Tail(lines), Append(pending, <<l[4], l[2]>>), acc)
             ELSE IF Len(l) = 3 /\ l[1] = "} "
             THEN ParseC(Tail(lines), <<>>, Append(acc, <<l[2], pending>>))
             ELSE ParseC(Tail(lines), pending, acc)

\* The declarations the schema asks for, with each token spelled by T.
Decls(items, T(_)) ==
    [i \in 1..Len(items) |->
        <<items[i][1],
          [j \in 1..Len(items[i][2]) |-> <<items[i][2][j][1], T(items[i][2][j][2].tok)>>]>>]

Verbatim(tok) == tok

\* A parse with the types dropped: record names and field names in order.
NamesOf(decls) ==
    [i \in 1..Len(decls) |-> <<decls[i][1], [j \in 1..Len(decls[i][2]) |-> decls[i][2][j][1]]>>]

Emitted == pc \in {"write_rs", "write_c", "done"}

Schema == disk.items

Terminated == pc \in {"done", "crashed", "exited"}

CheckerStarted == HasRun("check_for_32bit_alignment")

\* The sum of the byte sizes of the primitive-typed fields of a record.
RECURSIVE PrimSum(_)
PrimSum(value) ==
    IF value = <<>> THEN 0
    ELSE (IF is_primitive_type(Head(value)[2].tok)
          THEN DictGet(PrimitiveSizes, Head(value)[2].tok)
          ELSE 0)
         + PrimSum(Tail(value))

WarningsNaming(key) ==
    SelectSeq(stdout, LAMBDA l : Len(l) = 5 /\ l[1] = "Warning: " /\ l[2] = key)

LinesNaming(filename) ==
    SelectSeq(stdout, LAMBDA l : \E n \in 1..Len(l) : l[n] = filename)

----------------------------------------------------------------------------
(* Claims *)

\* C1: once both emitters have run, every field of every record is declared
\* in the C text with its token translated by the fixed lookup (unchanged when
\* it is not a primitive) and in the Rust text with its token unchanged,
\* whether the field spec is a bare token or a mapping with a `type` key.
C1_FieldTypes ==
    Emitted =>
        /\ ParseC(c_code, <<>>, <<>>) = Decls(Schema, type_to_c_type)
        /\ ParseRust(rust_code, <<>>) = Decls(Schema, Verbatim)

\* C2: when the checker has finished, each record whose primitive-typed
\* fields (bare or mapping) sum to a size that is not a multiple of 4 has
\* exactly one warning, naming it and that size, and every other record has
\* none.
C2_Warnings ==
    pc = "rust" =>
        \A i \in 1..Len(Schema) :
            LET key == Schema[i][1]
                sum == PrimSum(Schema[i][2])
            IN  WarningsNaming(key) =
                    IF sum % 4 # 0 THEN <<WarningLine(key, sum)>> ELSE <<>>

\* C3: a run that has started the checker on a loaded schema does not end
\* before both emitters have run on the unchanged schema and both output
\* files have been opened for writing.
C3_CheckerNeverBlocks ==
    (CheckerStarted /\ ~data.isNone /\ Terminated) =>
        /\ HasRun("yaml_to_rust") /\ HasRun("yaml_to_c")
        /\ data = Loaded(Schema)
        /\ opened = <<"structure.rs", "ecmemory.h">>

\* C4: when the path on the command line does not exist, the run prints
\* "File not found" with exactly that path and goes no further than the
\* checker's entry: no output file is ever opened for writing or written.
C4_MissingFileAborts ==
    (Len(argv) = 2 /\ disk.kind = "missing" /\ pc # "start") =>
        /\ stdout = << <<"File not found: ", argv[2]>> >>
        /\ pc \in {"load", "check", "crashed"}
        /\ opened = <<>>
        /\ \A n \in OutputNames : outfiles[n].state = "untouched"

C4_Witness ==
    Len(argv) = 2 /\ disk.kind = "missing" /\ pc = "crashed"

\* C5: the write of ecmemory.h is attempted whatever the write of
\* structure.rs did; each attempted file has exactly one printed line, the
\* success line if and only if its write succeeded and otherwise the error
\* line with the cause; and a run never ends abnormally once a write has been
\* attempted.
C5_WritesIndependent ==
    /\ pc = "write_c" => opened = <<"structure.rs">>
    /\ pc = "done" => opened = <<"structure.rs", "ecmemory.h">>
    /\ pc = "crashed" => opened = <<>>
    /\ \A n \in 1..Len(opened) :
          LET f == opened[n]
              lang == IF f = "structure.rs" THEN "Rust" ELSE "C"
          IN  /\ Len(LinesNaming(f)) = 1
              /\ outfiles[f].state \in {"written", "failed"}
              /\ outfiles[f].state = "written" <=>
                    LinesNaming(f)[1] = <<lang, " code has been written to ", f>>
              /\ outfiles[f].state = "failed" <=>
                    \E cause \in WriteOutcomes \ {"ok"} :
                        LinesNaming(f)[1] =
                            <<"An error occurred while writing to ", f, ": ", cause>>
    /\ \A f \in OutputNames \ Range(opened) :
          outfiles[f].state = "untouched" /\ LinesNaming(f) = <<>>

C5_Witness ==
    /\ pc = "done"
    /\ outfiles["structure.rs"].state = "failed"
    /\ outfiles["ecmemory.h"].state = "written"

\* C6: the structs of the Rust text and of the C text are the schema's
\* records in the schema's order, each with the record's fields in declared
\* order, none dropped, duplicated or reordered; so both texts list the same
\* (record, field) names in the same order.
C6_OrderPreserved ==
    Emitted =>
        /\ NamesOf(ParseRust(rust_code, <<>>)) = NamesOf(Decls(Schema, Verbatim))
        /\ NamesOf(ParseC(c_code, <<>>, <<>>)) = NamesOf(Decls(Schema, Verbatim))
        /\ NamesOf(ParseRust(rust_code, <<>>)) = NamesOf(ParseC(c_code, <<>>, <<>>))

C6_Witness ==
    /\ Emitted
    /\ Len(Schema) = 2
    /\ Schema[1][1] = "u8"
    /\ Len(Schema[1][2]) = 2
    /\ Len(Schema[2][2]) = 1
    /\ Len(ParseC(c_code, <<>>, <<>>)) = 2

\* C7: whichever of the checker and the two emitters have run, in whatever
\* order, the schema object is the schema as loaded, and each emitter's text
\* is the text of that schema.
C7_SchemaUnchanged ==
    /\ data = Loaded(Schema)
    /\ HasRun("yaml_to_rust") => rust_code = yaml_to_rust(Loaded(Schema))
    /\ HasRun("yaml_to_c") => c_code = yaml_to_c(Loaded(Schema))

C7_Witness ==
    /\ calls = <<"yaml_to_c", "check_for_32bit_alignment", "yaml_to_rust">>
    /\ \E i \in 1..Len(Schema) : \E j \in 1..Len(Schema[i][2]) :
          Schema[i][2][j][2].isDict /\ Schema[i][2][j][2].tok = "u32"

\* C9: between records of the checker's outer loop, every record processed
\* so far has an entry in the size table, the last one's being its
\* accumulated sum; and a KeyError is never raised for a token that names a
\* record processed earlier.
C9_RecordEntryStored ==
    /\ pc = "check_for" =>
          /\ \A k \in 1..chk.i : Schema[k][1] \in Keys(chk.sizes)
          /\ chk.i >= 1 =>
                /\ Schema[chk.i][1] \in Keys(chk.sizes)
                /\ DictGet(chk.sizes, Schema[chk.i][1]) = chk.size
    /\ (pc = "crashed" /\ exc = "KeyError") =>
          Schema[chk.i][2][chk.j][2].tok \notin {Schema[k][1] : k \in 1..(chk.i - 1)}

\* C10: in every state of the checker the six primitive tokens keep their
\* seeded sizes in the size table.
C10_PrimitiveSizesKept ==
    \A n \in 1..Len(PrimitiveSizes) :
        /\ PrimitiveSizes[n][1] \in Keys(chk.sizes)
        /\ DictGet(chk.sizes, PrimitiveSizes[n][1]) = PrimitiveSizes[n][2]

====
